---- MODULE Spec2Model ----
(***************************************************************************)
(* Model of the WKD key provider of crates/wks (src/provider/mod.rs):      *)
(* the KeyStore (keys, uids, files), the startup directory scan, the       *)
(* inotify watcher task that mutates the store under the write lock, and   *)
(* discover(), which reads it under the read lock and sanitizes the hit.   *)
(***************************************************************************)
EXTENDS Naturals, Sequences, FiniteSets, TLC

(* ------------------------------ bounds --------------------------------- *)

\* filesystem changes the environment makes after the startup scan
MaxChanges == 2

(* ------------------------- certificates and files ---------------------- *)

\* file names of the watched directory
Paths == {"k1", "k2"}

NoFile == "absent"

\* what a file of the directory may hold: four certificates, malformed bytes
FileContents == {"alice1", "alice2", "bob", "weak", "garbage"}

\* a UserID packet: display name, declared (raw) addr-spec, and whether the
\* StandardPolicy accepts its binding signature now
UserId(name, local, domain, valid) ==
    [name |-> name, local |-> local, domain |-> domain, valid |-> valid]

\* a subkey with its self-signatures, most recent first; a signature is the
\* set of its key flags, {"none"} when it carries no key-flags subpacket
Subkey(id, sigs) == [id |-> id, sigs |-> sigs]

\* Cert::from_file: the certificate a file parses to (none for malformed
\* bytes or a missing file).  policy is FALSE when with_policy rejects the
\* certificate as a whole (no valid primary-key binding).
CertOfFile(content) ==
    CASE content = "alice1" ->
           {[fp |-> "FA",
             userids |-> {UserId("Alice", "alice", "example.com", TRUE),
                          UserId("Old", "old", "example.com", FALSE)},
             uattrs |-> 1,
             subkeys |-> {Subkey("enc", <<{"Et"}>>),
                          Subkey("cert", <<{"C"}>>)},
             secret |-> FALSE, policy |-> TRUE]}
      [] content = "alice2" ->
           {[fp |-> "FA",
             userids |-> {UserId("Alice", "alice", "example.com", TRUE),
                          UserId("Alice (work)", "alice", "example.com", TRUE)},
             uattrs |-> 0,
             subkeys |-> {Subkey("sign", <<{"S"}, {"C"}>>),
                          Subkey("store", <<{"Er"}, {"Et"}>>),
                          Subkey("bare", <<>>),
                          Subkey("noflags", <<{"none"}>>)},
             secret |-> TRUE, policy |-> TRUE]}
      [] content = "bob" ->
           {[fp |-> "FB",
             userids |-> {UserId("Bob", "Bob", "Example.com", TRUE),
                          UserId("Alice", "alice", "example.com", TRUE),
                          UserId("Nobody", "", "", TRUE)},
             uattrs |-> 0,
             subkeys |-> {Subkey("enc", <<{"Et", "Er"}>>)},
             secret |-> FALSE, policy |-> TRUE]}
      [] content = "weak" ->
           {[fp |-> "FW",
             userids |-> {UserId("Weak", "weak", "example.com", TRUE)},
             uattrs |-> 0,
             subkeys |-> {},
             secret |-> FALSE, policy |-> FALSE]}
      [] OTHER -> {}

\* lowercasing in the empty locale, on the strings the certificates use
Lower(s) ==
    CASE s = "Bob" -> "bob"
      [] s = "Example.com" -> "example.com"
      [] OTHER -> s

\* UserID::email(): the declared addr-spec, none when the packet has none
Email(u) == IF u.local = "" THEN {} ELSE {u.local \o "@" \o u.domain}

\* UserID::email_normalized(): local part and domain lowercased
EmailNormalized(u) ==
    IF u.local = "" THEN {} ELSE {<<Lower(u.local), Lower(u.domain)>>}

\* SHA-1 then Z-Base-32 of the local part (digests computed off-line)
encode_local_part(local) ==
    CASE local = "alice" -> "kei1q4tipxxu1yj79k9kfukdhfy631xe"
      [] local = "bob" -> "jycbiujnsxs47xrkethgtj69xuunurok"
      [] local = "Bob" -> "5jurm7znfx49qsmw5t9q4z6pcfopppe6"
      [] local = "weak" -> "dzsuyw6ogaa8uj8gogt5qyndmisaoywo"
      [] local = "old" -> "ayg5z1q4569bhe3q1qu1uzk8km7phni9"
      [] OTHER -> "unknown"

(* ------------------------------ KeyStore ------------------------------- *)

\* a finite map is a function on the set of its keys
MapInsert(m, k, v) == [x \in DOMAIN m \cup {k} |-> IF x = k THEN v ELSE m[x]]
MapRemove(m, k) == [x \in DOMAIN m \ {k} |-> m[x]]
\* a purge that drops nothing
MapRetainAll(m, fp) == m

\* HashMap::retain(|_, v| v != fp)
MapRetain(m, fp) == [x \in {y \in DOMAIN m : m[y] # fp} |-> m[x]]
EmptyMap == [x \in {} |-> x]

\* KeyStore::default()
EmptyStore == [keys |-> EmptyMap, uids |-> EmptyMap, files |-> EmptyMap]

EmailComponents(local, domain) ==
    [encoded_local |-> encode_local_part(local),
     local_part |-> local, domain |-> domain]

\* an index that keeps the fingerprint an identity already maps to
process_email_keeping(uids, email, fp) ==
    IF EmailComponents(email[1], email[2]) \in DOMAIN uids THEN uids
    ELSE MapInsert(uids, EmailComponents(email[1], email[2]), fp)

\* process_email: index one normalized email under fp
process_email(uids, email, fp) ==
    MapInsert(uids, EmailComponents(email[1], email[2]), fp)

\* an import that stores the certificate as it was read
KeepSecretKeyMaterial(key) == key

\* import, line 121: key.strip_secret_key_material()
StripSecretKeyMaterial(key) == [key EXCEPT !.secret = FALSE]

\* the normalized emails of the user IDs valid under the policy
ValidEmails(key) ==
    UNION {EmailNormalized(u) : u \in {v \in key.userids : v.valid}}

\* import, lines 128-133: every valid email is mapped to the fingerprint
RECURSIVE IndexEmails(_, _, _)
IndexEmails(uids, emails, fp) ==
    IF emails = {} THEN uids
    ELSE LET e == CHOOSE x \in emails : TRUE
         IN IndexEmails(process_email(uids, e, fp), emails \ {e}, fp)

\* a merge that appends the packets of the new certificate to the old ones
MergeAppending(existing, key) ==
    [fp |-> existing.fp,
     userids |-> existing.userids \cup key.userids,
     uattrs |-> existing.uattrs + key.uattrs,
     subkeys |-> existing.subkeys \cup key.subkeys,
     secret |-> existing.secret \/ key.secret,
     policy |-> existing.policy /\ key.policy]

\* Cert::merge_public_and_secret of two certificates with one primary key
MergePublicAndSecret(existing, key) ==
    [fp |-> existing.fp,
     userids |-> existing.userids \cup key.userids,
     uattrs |-> IF existing.uattrs > key.uattrs THEN existing.uattrs
                ELSE key.uattrs,
     subkeys |-> existing.subkeys \cup key.subkeys,
     secret |-> existing.secret \/ key.secret,
     policy |-> existing.policy /\ key.policy]

\* an import that replaces the entry of the fingerprint
ReplacingKey(keys, key) == key

\* import, lines 135-140: merge into the entry of the fingerprint, if any
MergedKey(keys, key) ==
    IF key.fp \in DOMAIN keys THEN MergePublicAndSecret(keys[key.fp], key)
    ELSE key

\* KeyStore::import
Import(s, cert) ==
    LET key == StripSecretKeyMaterial(cert)
    IN IF ~key.policy THEN [ok |-> FALSE, s |-> s]
       ELSE [ok |-> TRUE,
             s |-> [s EXCEPT
                      !.uids = IndexEmails(s.uids, ValidEmails(key), key.fp),
                      !.keys = MapInsert(MapRemove(s.keys, key.fp), key.fp,
                                         MergedKey(s.keys, key))]]

\* KeyStore::load, lines 85-88, once the file has parsed to cert
LoadCert(s, path, cert) ==
    LET r == Import(s, cert)
    IN IF ~r.ok THEN r
       ELSE [ok |-> TRUE,
             s |-> [r.s EXCEPT !.files = MapInsert(r.s.files, path, cert.fp)]]

\* KeyStore::load of a file with the given content
Load(s, path, content) ==
    IF CertOfFile(content) = {} THEN [ok |-> FALSE, s |-> s]
    ELSE LoadCert(s, path, CHOOSE c \in CertOfFile(content) : TRUE)

\* KeyStore::delete
Delete(s, fp) ==
    IF fp \notin DOMAIN s.keys THEN [ok |-> FALSE, s |-> s]
    ELSE [ok |-> TRUE,
          s |-> [s EXCEPT !.keys = MapRemove(s.keys, fp),
                          !.uids = MapRetain(s.uids, fp)]]

\* KeyStore::unload
Unload(s, path) ==
    IF path \notin DOMAIN s.files THEN [ok |-> FALSE, s |-> s]
    ELSE Delete([s EXCEPT !.files = MapRemove(s.files, path)], s.files[path])

\* KeyStore::find_by_email: the possible results, one per entry the
\* iteration may find first; a result is empty (None) or one triple
find_by_email(ks, us, encoded, domain) ==
    LET matches == {c \in DOMAIN us :
                       c.encoded_local = encoded /\ c.domain = domain}
    IN IF matches = {} THEN {{}}
       ELSE {IF us[c] \in DOMAIN ks
             THEN {<<c.local_part, c.domain, ks[us[c]]>>}
             ELSE {} : c \in matches}

\* does the first (most recent) self-signature assert signing or
\* transport encryption
SubkeyUsable(sk) ==
    /\ Len(sk.sigs) > 0
    /\ sk.sigs[1] \cap {"Et", "S"} # {}

\* sanitize_cert
sanitize_cert(cert, target_email) ==
    [cert EXCEPT
       !.userids = {u \in cert.userids : Email(u) = {target_email}},
       !.uattrs = 0,
       !.subkeys = {sk \in cert.subkeys : SubkeyUsable(sk)}]

\* discover, lines 296-299, on the result of find_by_email
SanitizeHit(hit) ==
    {sanitize_cert(h[3], h[1] \o "@" \o h[2]) : h \in hit}

(* ------------------------------- state --------------------------------- *)

VARIABLES
    dir,        \* the watched directory: file name -> content, or NoFile
    keys,       \* KeyStore.keys: fingerprint -> certificate
    uids,       \* KeyStore.uids: EmailComponents -> fingerprint
    files,      \* KeyStore.files: path -> fingerprint
    scanTodo,   \* entries read_dir has still to yield to load_directory
    wpc,        \* where FileKeyProvider::new / the watcher task stands
    watching,   \* the kernel holds a watch on the directory
    events,     \* inotify events in the kernel queue, not yet read
    buffer,     \* events the stream has read into its buffer, not yet yielded
    wlock,      \* the RwLock is write-locked
    wev,        \* the event the watcher is handling
    wcert,      \* the certificate load() parsed for it (a set of 0 or 1)
    wkey,       \* import's key once merged (a set of 0 or 1)
    wfp,        \* unload's fingerprint of the path ("" before it is known)
    wres,       \* the Result of the load/unload of the event in hand
    werr,       \* the KeyError of that Result, "none" when it is not an Err
    wpre,       \* the store when the write lock was taken
    poisoned,   \* the lock is poisoned: a writer panicked under its guard
    rpc,        \* where one discover() call stands
    rq,         \* its arguments
    rres,       \* its result (a set of 0 or 1 certificate)
    obsAtomic,  \* what it read was the state before or after the mutation
    last,       \* the most recent finished load/unload; of a successful
                \* load, also the store it started from
    changes,    \* filesystem changes made so far
    lostChange, \* a change was made while no watch was established
    retried     \* the attempt to establish the stream follows a backoff

vars == <<dir, keys, uids, files, scanTodo, wpc, watching, events, buffer, wlock,
          wev, wcert, wkey, wfp, wres, werr, wpre, rpc, rq, rres, obsAtomic, last,
          changes, lostChange, retried, poisoned>>

store_vars == <<keys, uids, files>>
reader_vars == <<rpc, rq, rres, obsAtomic>>
hist_vars == <<last>>
env_vars == <<dir, events, buffer, changes, lostChange>>
handler_vars == <<wev, wcert, wkey, wfp, wres, werr, wpre>>

Store == [keys |-> keys, uids |-> uids, files |-> files]

NoEvent == [mask |-> "none", name |-> ""]
NoOp == [op |-> "none", path |-> "", ok |-> TRUE, before |-> EmptyStore,
         by |-> "none"]
NoQuery == [encoded |-> "", domain |-> ""]

\* the requests a client makes: the hashed local parts of two addresses
Queries ==
    {[encoded |-> encode_local_part(l), domain |-> "example.com"] :
        l \in {"alice", "bob"}}

\* EventMask::CLOSE_WRITE | EventMask::MOVED_TO
IsLoadEvent(ev) == ev.mask \in {"CLOSE_WRITE", "MOVED_TO"}
\* EventMask::DELETE | EventMask::MOVED_FROM
IsUnloadEvent(ev) == ev.mask \in {"DELETE", "MOVED_FROM"}

Init ==
    /\ dir \in [Paths -> FileContents \cup {NoFile}]
    /\ keys = EmptyMap /\ uids = EmptyMap /\ files = EmptyMap
    /\ scanTodo = {p \in Paths : dir[p] # NoFile}
    /\ wpc = "scan"
    /\ watching = FALSE
    /\ events = <<>> /\ buffer = <<>>
    /\ wlock = FALSE
    /\ wev = NoEvent /\ wcert = {} /\ wkey = {} /\ wfp = ""
    /\ wres = "none" /\ werr = "none" /\ wpre = EmptyStore
    /\ rpc = "idle" /\ rq = NoQuery /\ rres = {} /\ obsAtomic = TRUE
    /\ last = NoOp
    /\ changes = 0 /\ lostChange = FALSE /\ retried = FALSE
    /\ poisoned = FALSE

(* --------------------------- startup scan ------------------------------ *)

\* a scan that gives up at the first file that fails to load
ScanRestAborting(todo, p, ok) == IF ok THEN todo \ {p} ELSE {}

\* load_directory, lines 193-197: the entries still to load once load(p)
\* has returned; an Err is logged and the loop goes on
ScanRest(todo, p, ok) == todo \ {p}

\* load_directory: keys.load(path) for the next entry, errors only logged;
\* then new() wraps the store in the lock and spawns the watcher
ScanStep ==
    /\ wpc = "scan"
    /\ IF scanTodo = {}
       THEN /\ wpc' = "init"
            /\ UNCHANGED <<store_vars, scanTodo, hist_vars>>
       ELSE \E p \in scanTodo :
              LET r == Load(Store, p, dir[p])
              IN /\ keys' = r.s.keys /\ uids' = r.s.uids /\ files' = r.s.files
                 /\ scanTodo' = ScanRest(scanTodo, p, r.ok)
                 /\ last' = [op |-> "load", path |-> p, ok |-> r.ok,
                             before |-> IF r.ok THEN Store ELSE EmptyStore,
                             by |-> "scan"]
                 /\ wpc' = wpc
    /\ UNCHANGED <<env_vars, watching, wlock, handler_vars, reader_vars, retried,
                   poisoned>>

(* ----------------------------- filesystem ------------------------------ *)

\* the kernel merges an event into the last one of its queue when the two
\* are identical; it never merges into an IGNORED, whose watch is gone
Enqueue(q, ev) ==
    IF q # <<>> /\ q[Len(q)] = ev /\ ev.mask # "IGNORED" THEN q
    ELSE Append(q, ev)

RECURSIVE EnqueueAll(_, _)
EnqueueAll(q, evs) ==
    IF evs = <<>> THEN q ELSE EnqueueAll(Enqueue(q, Head(evs)), Tail(evs))

\* the kernel queues an event only while the directory is watched
Queue(evs) == IF watching THEN EnqueueAll(events, evs) ELSE events

Change(d, evs) ==
    /\ wpc # "scan"
    /\ changes < MaxChanges
    /\ dir' = d
    /\ events' = Queue(evs)
    /\ changes' = changes + 1
    /\ lostChange' = (lostChange \/ ~watching)
    /\ UNCHANGED <<buffer, store_vars, scanTodo, wpc, watching, wlock, handler_vars,
                   reader_vars, hist_vars, retried,
                   poisoned>>

\* a file is created or overwritten, and closed
FsWrite ==
    \E p \in Paths, c \in FileContents :
        Change([dir EXCEPT ![p] = c], <<[mask |-> "CLOSE_WRITE", name |-> p]>>)

\* a file is removed
FsDelete ==
    \E p \in Paths :
        /\ dir[p] # NoFile
        /\ Change([dir EXCEPT ![p] = NoFile], <<[mask |-> "DELETE", name |-> p]>>)

\* a file is renamed within the directory, replacing the target
FsRename ==
    \E p \in Paths, q \in Paths :
        /\ p # q
        /\ dir[p] # NoFile
        /\ Change([dir EXCEPT ![p] = NoFile, ![q] = dir[p]],
                  <<[mask |-> "MOVED_FROM", name |-> p],
                    [mask |-> "MOVED_TO", name |-> q]>>)

\* the watched directory, empty, is removed and made again: the kernel
\* queues IGNORED, an event that carries no file name, and drops the watch
FsDirEvent ==
    /\ wpc # "scan"
    /\ changes < MaxChanges
    /\ watching
    /\ \A p \in Paths : dir[p] = NoFile
    /\ events' = Queue(<<[mask |-> "IGNORED", name |-> ""]>>)
    /\ watching' = FALSE
    /\ changes' = changes + 1
    /\ UNCHANGED <<dir, buffer, lostChange, store_vars, scanTodo, wpc, wlock,
                   handler_vars, reader_vars, hist_vars, retried, poisoned>>

(* ------------------------------ watcher -------------------------------- *)

\* RwLock: a writer waits for the readers and the writer, a reader for the writer
Readers == IF rpc = "idle" THEN 0 ELSE 1
CanWrite == ~wlock /\ Readers = 0
\* a read that did not wait for the writer
CanReadUnguarded == TRUE
CanRead == ~wlock

\* a read that takes the guard out of the poison error
ReadLockRecovering == TRUE

\* RwLock::read() is Ok unless a writer panicked while holding the guard
ReadLockOk == ~poisoned

\* a watcher that returned on a failed watches().add
OnAddWatchErrorReturn == "terminated"
\* lines 215-222: what follows a failed watches().add
OnAddWatchError == "backoff"
\* lines 205-211: what follows a failed Inotify::init
OnInitError == "terminated"
\* lines 224-230: what follows a failed into_event_stream
OnStreamError == "terminated"
\* lines 232, 260: what follows the end of the stream or an error from it
OnStreamEnd == "add_watch"
\* a loop that gave up on the first failed event
AfterEventAborting(res) == IF res = "err" THEN "terminated" ELSE "await"
\* lines 247-257: what follows the load/unload of an event, by its result
AfterEvent(res) == "await"

Control(pc) ==
    /\ wpc' = pc
    /\ UNCHANGED <<env_vars, store_vars, scanTodo, watching, wlock,
                   handler_vars, reader_vars, hist_vars, retried,
                   poisoned>>

\* Inotify::init()
InotifyInitOk == wpc = "init" /\ Control("add_watch")
InotifyInitErr == wpc = "init" /\ Control(OnInitError)

\* inotify.watches().add(path, CLOSE_WRITE | DELETE | MOVE)
AddWatchOk ==
    /\ wpc = "add_watch"
    /\ wpc' = "mkstream"
    /\ watching' = TRUE
    /\ UNCHANGED <<env_vars, store_vars, scanTodo, wlock, handler_vars,
                   reader_vars, hist_vars, retried,
                   poisoned>>
AddWatchErr == wpc = "add_watch" /\ Control(OnAddWatchError)

\* tokio::time::sleep(5 s), then continue
BackoffDone ==
    /\ wpc = "backoff"
    /\ wpc' = "add_watch"
    /\ retried' = TRUE
    /\ UNCHANGED <<env_vars, store_vars, scanTodo, watching, wlock,
                   handler_vars, reader_vars, hist_vars,
                   poisoned>>

\* inotify.into_event_stream(&mut buffer); it consumes the instance, so
\* when the task ends on its Err the descriptor is closed, and the watch
\* and the queue are gone
StreamStep(pc) ==
    /\ wpc = "mkstream"
    /\ wpc' = pc
    /\ retried' = FALSE
    /\ IF pc = "terminated"
       THEN watching' = FALSE /\ events' = <<>> /\ buffer' = <<>>
       ELSE UNCHANGED <<watching, events, buffer>>
    /\ UNCHANGED <<dir, changes, lostChange, store_vars, scanTodo, wlock,
                   handler_vars, reader_vars, hist_vars, poisoned>>
EventStreamOk == StreamStep("await")
EventStreamErr == StreamStep(OnStreamError)

\* es.next().await yields None or Some(Err): into_inotify, next iteration
StreamEnd == wpc = "await" /\ buffer = <<>> /\ Control(OnStreamEnd)

\* let mut buffer = [0; 1024]
BufferLen == 1024

\* the bytes of one event in a read: the 16 of the header, and the name
\* padded to the next 16
EventBytes(ev) == IF ev.name = "" THEN 16 ELSE 32

\* the number of events at the head of the kernel queue that one read(2)
\* into n bytes takes
RECURSIVE Fits(_, _)
Fits(q, n) ==
    IF q = <<>> THEN 0
    ELSE IF EventBytes(Head(q)) > n THEN 0
    ELSE 1 + Fits(Tail(q), n - EventBytes(Head(q)))

\* es.next().await: the stream yields the next event of its buffer; when the
\* buffer is empty it first reads what the kernel queue holds into it.
\* es.next().await yields Some(Ok(event)); an event without a name is skipped
NextEvent ==
    /\ wpc = "await"
    /\ buffer \o events # <<>>
    /\ LET k == Fits(events, BufferLen)
           buf == IF buffer # <<>> THEN buffer ELSE SubSeq(events, 1, k)
           rest == IF buffer # <<>> THEN events
                   ELSE SubSeq(events, k + 1, Len(events))
       IN /\ buffer' = Tail(buf)
          /\ events' = rest
          /\ IF Head(buf).name = ""
             THEN wpc' = "await" /\ wev' = wev
             ELSE wpc' = "lock" /\ wev' = Head(buf)
    /\ UNCHANGED <<dir, changes, lostChange, store_vars, scanTodo, watching,
                   wlock, wcert, wkey, wfp, wres, werr, wpre, reader_vars,
                   hist_vars, retried,
                   poisoned>>

\* keys.write(), then the dispatch on the event mask: load, unload, or
\* for any other mask nothing
AcquireWrite ==
    /\ wpc = "lock"
    /\ CanWrite
    /\ wlock' = TRUE
    /\ wpre' = Store
    /\ wpc' = IF IsLoadEvent(wev) THEN "load_read"
              ELSE IF IsUnloadEvent(wev) THEN "unload_files"
              ELSE "release"
    /\ UNCHANGED <<env_vars, store_vars, scanTodo, watching, wev, wcert, wkey,
                   wfp, wres, werr, reader_vars, hist_vars, retried,
                   poisoned>>

Step(pc, res) ==
    /\ wpc' = pc
    /\ wres' = res
    /\ werr' = "none"
    /\ UNCHANGED <<env_vars, scanTodo, watching, wlock, wev, wpre,
                   reader_vars, hist_vars, retried,
                   poisoned>>

\* the operation returns Err(kind), a KeyError: nothing after the `?` runs
Fail(kind) ==
    /\ wpc' = "release"
    /\ wres' = "err"
    /\ werr' = kind
    /\ UNCHANGED <<env_vars, scanTodo, watching, wlock, wev, wpre,
                   reader_vars, hist_vars, retried,
                   poisoned>>

\* an unload that reports an unknown path as an unknown key
UnknownPathAsKey == "KeyNotFound"

\* unload, line 95: ok_or(KeyError::FileNotFound)
UnknownPath == "FileNotFound"

\* delete, line 102: ok_or(KeyError::KeyNotFound)
UnknownKey == "KeyNotFound"

\* load, line 84: Cert::from_file(path) reads and parses the file; import,
\* lines 121-126: strip the secrets, evaluate the policy
LoadRead ==
    /\ wpc = "load_read"
    /\ LET parsed == CertOfFile(dir[wev.name])
           good == {StripSecretKeyMaterial(c) : c \in {k \in parsed : k.policy}}
       IN /\ wcert' = good
          /\ IF good = {} THEN Fail("Other")
             ELSE Step("import_uids", "none")
    /\ UNCHANGED <<store_vars, wkey, wfp>>

\* the identity map holds the email under the fingerprint
Indexed(us, email, fp) ==
    /\ EmailComponents(email[1], email[2]) \in DOMAIN us
    /\ us[EmailComponents(email[1], email[2])] = fp

\* import, lines 129-133: one iteration of the loop over valid.userids(),
\* one process_email; the order of the user IDs is the library's, any order
\* here; an iteration that re-inserts an entry changes nothing and is no
\* step; when no email is left the loop is done
ImportUids ==
    /\ wpc = "import_uids"
    /\ \E key \in wcert :
          LET todo == {e \in ValidEmails(key) : ~Indexed(uids, e, key.fp)}
          IN IF todo = {}
             THEN uids' = uids /\ Step("import_remove", "none")
             ELSE /\ \E e \in todo : uids' = process_email(uids, e, key.fp)
                  /\ Step("import_uids", "none")
    /\ UNCHANGED <<keys, files, wcert, wkey, wfp>>

\* import, lines 136-139: self.keys.remove(&fp), and the merge with it
ImportRemove ==
    /\ wpc = "import_remove"
    /\ \E key \in wcert :
          /\ wkey' = {MergedKey(keys, key)}
          /\ keys' = MapRemove(keys, key.fp)
    /\ Step("import_insert", "none")
    /\ UNCHANGED <<uids, files, wcert, wfp>>

\* import, line 140: self.keys.insert(fp, key)
ImportInsert ==
    /\ wpc = "import_insert"
    /\ \E key \in wkey : keys' = MapInsert(keys, key.fp, key)
    /\ Step("files_insert", "none")
    /\ UNCHANGED <<uids, files, wcert, wkey, wfp>>

\* load, line 87: self.files.insert(path, fp)
FilesInsert ==
    /\ wpc = "files_insert"
    /\ \E key \in wcert : files' = MapInsert(files, wev.name, key.fp)
    /\ Step("release", "ok")
    /\ UNCHANGED <<keys, uids, wcert, wkey, wfp>>

\* unload, lines 93-96: self.files.remove(path).ok_or(FileNotFound)?
UnloadFiles ==
    /\ wpc = "unload_files"
    /\ IF wev.name \in DOMAIN files
       THEN /\ files' = MapRemove(files, wev.name)
            /\ wfp' = files[wev.name]
            /\ Step("delete_keys", "none")
       ELSE /\ UNCHANGED <<files, wfp>>
            /\ Fail(UnknownPath)
    /\ UNCHANGED <<keys, uids, wcert, wkey>>

\* delete, line 102: self.keys.remove(fp).ok_or(KeyNotFound)?
DeleteKeys ==
    /\ wpc = "delete_keys"
    /\ IF wfp \in DOMAIN keys
       THEN keys' = MapRemove(keys, wfp) /\ Step("delete_uids", "none")
       ELSE keys' = keys /\ Fail(UnknownKey)
    /\ UNCHANGED <<uids, files, wcert, wkey, wfp>>

\* delete, line 103: self.uids.retain(|_, v| v != fp)
DeleteUids ==
    /\ wpc = "delete_uids"
    /\ uids' = MapRetain(uids, wfp)
    /\ Step("release", "ok")
    /\ UNCHANGED <<keys, files, wcert, wkey, wfp>>

\* the steps of a load in which the watcher runs certificate code of the
\* library: parsing and policy, normalizing the emails, merging
PanicPoints == {"load_read", "import_uids", "import_remove", "import_insert"}

\* the task panics under the write guard: unwinding drops the guard, which
\* poisons the lock, and the task is finished; its inotify instance is gone
WatcherPanic ==
    /\ wpc \in PanicPoints
    /\ wlock
    /\ wpc' = "panicked"
    /\ wlock' = FALSE
    /\ poisoned' = TRUE
    /\ watching' = FALSE /\ events' = <<>> /\ buffer' = <<>>
    /\ wev' = NoEvent /\ wcert' = {} /\ wkey' = {} /\ wfp' = ""
    /\ wres' = "none" /\ werr' = "none" /\ wpre' = EmptyStore
    /\ UNCHANGED <<dir, changes, lostChange, store_vars, scanTodo,
                   reader_vars, hist_vars, retried>>

\* the result is logged, the guard is dropped, the loop awaits the next event
Release ==
    /\ wpc = "release"
    /\ wlock' = FALSE
    /\ wpc' = AfterEvent(wres)
    /\ last' = IF IsLoadEvent(wev) \/ IsUnloadEvent(wev)
               THEN [op |-> IF IsLoadEvent(wev) THEN "load" ELSE "unload",
                     path |-> wev.name, ok |-> (wres = "ok"),
                     before |-> IF IsLoadEvent(wev) /\ wres = "ok" THEN wpre
                                ELSE EmptyStore,
                     by |-> "watcher"]
               ELSE last
    /\ wev' = NoEvent /\ wcert' = {} /\ wkey' = {} /\ wfp' = ""
    /\ wres' = "none" /\ werr' = "none" /\ wpre' = EmptyStore
    /\ UNCHANGED <<env_vars, store_vars, scanTodo, watching, reader_vars,
                   retried,
                   poisoned>>

(* ------------------------------ shutdown ------------------------------- *)

\* a task that could be cancelled between the steps of a mutation
CancelAnywhere ==
    {"init", "backoff", "await", "import_uids", "import_remove",
     "import_insert", "files_insert", "delete_keys", "delete_uids"}

\* where abort() takes effect: before the first poll of the task, and at
\* its two awaits, the sleep of the backoff and es.next()
CancelPoints == {"init", "backoff", "await"}

\* Drop for FileKeyProvider: self.handle.abort(); the task is cancelled at
\* the await it stands at, and its inotify instance is dropped with it;
\* the provider is dropped by its last owner, so no discover is in progress
Abort ==
    /\ wpc \in CancelPoints
    /\ rpc = "idle"
    /\ wpc' = "aborted"
    /\ watching' = FALSE /\ events' = <<>> /\ buffer' = <<>>
    /\ UNCHANGED <<dir, changes, lostChange, store_vars, scanTodo, wlock,
                   handler_vars, reader_vars, hist_vars, retried, poisoned>>

(* ------------------------------ discover ------------------------------- *)

\* the store as the mutation in hand leaves it once it is complete
PostStore ==
    IF ~wlock \/ wpc = "load_read" THEN Store
    ELSE IF IsLoadEvent(wev)
         THEN IF wcert = {} THEN wpre
              ELSE LoadCert(wpre, wev.name, CHOOSE c \in wcert : TRUE).s
         ELSE IF IsUnloadEvent(wev) THEN Unload(wpre, wev.name).s
         ELSE wpre

PreStore == IF wlock THEN wpre ELSE Store

Observed(s) == <<s.keys, s.uids>>

\* self.keys.read(), find_by_email, then sanitize_cert of the hit; the read
\* guard is held until discover returns
DiscoverFind ==
    /\ wpc \notin {"scan", "aborted"}
    /\ rpc = "idle"
    /\ CanRead
    /\ \E q \in Queries :
          /\ rq' = q
          /\ IF ReadLockOk
             THEN \E hit \in find_by_email(keys, uids, q.encoded, q.domain) :
                     rres' = SanitizeHit(hit)
             ELSE rres' = {}
    /\ obsAtomic' = (Observed(Store) \in {Observed(PreStore), Observed(PostStore)})
    /\ rpc' = "found"
    /\ UNCHANGED <<env_vars, store_vars, scanTodo, wpc, watching, wlock,
                   handler_vars, hist_vars, retried,
                   poisoned>>

\* get_key of main.rs: the certificate, or 404 Not found
get_key_status(res) == IF res = {} THEN "404" ELSE "200"

\* the read guard is dropped and the result returned
DiscoverReturn ==
    /\ rpc = "found"
    /\ rpc' = "idle" /\ rq' = NoQuery /\ rres' = {} /\ obsAtomic' = TRUE
    /\ UNCHANGED <<env_vars, store_vars, scanTodo, wpc, watching, wlock,
                   handler_vars, hist_vars, retried,
                   poisoned>>

(* --------------------------- specification ----------------------------- *)

Next ==
    \/ ScanStep
    \/ FsWrite \/ FsDelete \/ FsRename \/ FsDirEvent
    \/ InotifyInitOk \/ InotifyInitErr
    \/ AddWatchOk \/ AddWatchErr \/ BackoffDone
    \/ EventStreamOk \/ EventStreamErr \/ StreamEnd
    \/ NextEvent \/ AcquireWrite
    \/ LoadRead \/ ImportUids \/ ImportRemove \/ ImportInsert \/ FilesInsert
    \/ UnloadFiles \/ DeleteKeys \/ DeleteUids \/ Release
    \/ WatcherPanic \/ Abort
    \/ DiscoverFind \/ DiscoverReturn

Spec == Init /\ [][Next]_vars

\* the step-wise mutation ends in the state the whole operation computes
StepwiseAgrees == wpc = "release" => Store = PostStore

(* ------------------------------- claims -------------------------------- *)

\* the watcher has finished the unload of a recorded path; the guard is
\* still held, wpre is the store the unload started from
UnloadDone ==
    /\ wpc = "release"
    /\ IsUnloadEvent(wev)
    /\ wev.name \in DOMAIN wpre.files

SharedFingerprint(s, p) ==
    \E q \in DOMAIN s.files \ {p} : s.files[q] = s.files[p]

\* C1: unload(p) of a path recorded with fingerprint f removes p's path
\* association only; it removes f's certificate and the identities mapped to
\* f if and only if no other recorded path maps to f, and leaves them in the
\* store otherwise.
C1_UnloadRespectsSharing ==
    UnloadDone =>
        LET p == wev.name
            f == wpre.files[p]
        IN /\ files = MapRemove(wpre.files, p)
           /\ IF SharedFingerprint(wpre, p)
              THEN keys = wpre.keys /\ uids = wpre.uids
              ELSE /\ f \notin DOMAIN keys
                   /\ \A c \in DOMAIN uids : uids[c] # f

\* C2: a successful load(p) immediately followed by unload(p) leaves the
\* certificate map, the identity map and the path map as they were before
\* the load.
C2_LoadUnloadInverse ==
    (UnloadDone /\ last.op = "load" /\ last.ok /\ last.path = wev.name)
        => Store = last.before

\* C3: the certificate and identity maps a lookup reads are those of the
\* store before the load/unload in hand or those after it, never those of a
\* state in between.
C3_LookupSeesWholeMutations ==
    rpc = "found" => obsAtomic

\* a lookup holds the read guard on a hit while the watcher, an event in
\* hand, waits for the write lock
C3_Witness ==
    rpc = "found" /\ rres # {} /\ wpc = "lock" /\ IsLoadEvent(wev)

\* C4: while the watcher reads and parses the file of a load event, the
\* write lock is not held.
C4_NoFileIoUnderLock ==
    wpc = "load_read" => ~wlock

\* the fingerprints of the files of the directory that load() accepts
DirFingerprints ==
    {c.fp : c \in {k \in UNION {CertOfFile(dir[p]) : p \in Paths} : k.policy}}

\* the watcher waits for events, none is queued or buffered, none was lost
Quiescent ==
    wpc = "await" /\ events = <<>> /\ buffer = <<>> /\ ~lostChange

\* C5: once the watcher is quiescent, the fingerprints of the store are
\* those of the certificate files of the directory.
C5_StoreMatchesDirectory ==
    Quiescent => DOMAIN keys = DirFingerprints

\* C6: a failed attempt to add the directory watch leads to the backoff and
\* from there to another attempt, never to the end of the task; the only way
\* out of the retry loop is a successful attempt (or the shutdown of the
\* provider, which cancels the task in its backoff).
C6_AddWatchRetried ==
    [][/\ (wpc = "add_watch" => wpc' \in {"add_watch", "backoff", "mkstream"})
       /\ (wpc = "add_watch" /\ wpc' = "mkstream" => watching')
       /\ (wpc = "backoff" => wpc' \in {"backoff", "add_watch", "aborted"})]_vars

\* the first attempts failed, and after the backoff the watch was added:
\* events are queued for the stream the watcher is about to read
C6_Witness ==
    retried /\ wpc = "mkstream" /\ watching /\ events # <<>> /\ ~lostChange

\* C7: no failure of the notification subsystem ends the watcher task.
C7_WatcherNeverTerminates ==
    wpc # "terminated"

HandlingPcs ==
    {"lock", "load_read", "import_uids", "import_remove", "import_insert",
     "files_insert", "unload_files", "delete_keys", "delete_uids", "release"}

\* C8: a failed load or unload of one event does not end the watch loop:
\* while an event is handled the task never terminates, and after a failed
\* event the watcher awaits the next one.
C8_FailedEventContinues ==
    [][/\ (wpc \in HandlingPcs => wpc' # "terminated")
       /\ (wpc = "release" /\ wres = "err" => wpc' \in {"release", "await"})]_vars

\* the event before failed, and the watcher has handled the next one
C8_Witness ==
    last.by = "watcher" /\ ~last.ok /\ wpc = "release"

\* the identity entries a lookup matches
Matches(q) ==
    {c \in DOMAIN uids : c.encoded_local = q.encoded /\ c.domain = q.domain}

\* C9: discover returns a certificate exactly when an identity entry matches
\* the encoded local part and the domain; the certificate is the sanitized
\* certificate of the entry's fingerprint and holds exactly one user
\* identity, local_part@domain of the entry.
C9_DiscoverReturnsIdentity ==
    rpc = "found" =>
        /\ (rres # {}) <=> (Matches(rq) # {})
        /\ \A cert \in rres : \E c \in Matches(rq) :
              LET email == c.local_part \o "@" \o c.domain
              IN /\ uids[c] \in DOMAIN keys
                 /\ cert = sanitize_cert(keys[uids[c]], email)
                 /\ Cardinality(cert.userids) = 1
                 /\ \A u \in cert.userids : Email(u) = {email}

\* C10: a sanitized certificate holds at most one user identity, no user
\* attribute, and only subkeys with a self-signature that asserts signing or
\* transport encryption.
C10_SanitizedMinimal ==
    rpc = "found" =>
        \A cert \in rres :
            /\ Cardinality(cert.userids) <= 1
            /\ cert.uattrs = 0
            /\ \A sk \in cert.subkeys :
                  \E i \in 1..Len(sk.sigs) : sk.sigs[i] \cap {"S", "Et"} # {}

\* the watcher has finished a successful load; the guard is still held,
\* wpre is the store the load started from, wcert the certificate it parsed
LoadDone ==
    wpc = "release" /\ IsLoadEvent(wev) /\ wres = "ok"

\* the load before this one imported the same certificate: it left the
\* certificate and identity maps this load started from
SameCertificateAgain ==
    /\ LoadDone
    /\ last.op = "load" /\ last.ok
    /\ \E c \in wcert : Observed(Import(last.before, c).s) = Observed(wpre)

\* C11: importing a certificate a second time leaves the certificate stored
\* under its fingerprint and the identity mappings as the first import left
\* them.
C11_ImportIdempotent ==
    SameCertificateAgain => Observed(Store) = Observed(wpre)

\* the certificate imported twice has been merged into an entry that held
\* more than it brings
C11_Witness ==
    /\ SameCertificateAgain
    /\ \E c \in wcert : c.fp \in DOMAIN wpre.keys /\ wpre.keys[c.fp].uattrs > 0

\* the watcher has finished an unload or the delete within it, and the
\* guard is still held
UnloadReturned ==
    wpc = "release" /\ IsUnloadEvent(wev)

\* C12: the unload of a path that has no association fails with
\* FileNotFound, the delete of a fingerprint that has no certificate fails
\* with KeyNotFound, and neither yields a successful result.
C12_NotFoundErrors ==
    UnloadReturned =>
        /\ wev.name \notin DOMAIN wpre.files
              => wres = "err" /\ werr = "FileNotFound"
        /\ (/\ wev.name \in DOMAIN wpre.files
            /\ wpre.files[wev.name] \notin DOMAIN wpre.keys)
              => wres = "err" /\ werr = "KeyNotFound"
        /\ wres = "ok"
              => /\ wev.name \in DOMAIN wpre.files
                 /\ wpre.files[wev.name] \in DOMAIN wpre.keys

\* a path that never was loaded is unloaded while the store holds a
\* certificate
C12_Witness ==
    /\ UnloadReturned
    /\ wev.name \notin DOMAIN wpre.files
    /\ wpre.keys # EmptyMap
    /\ werr = "FileNotFound"

\* the delete within an unload meets a fingerprint that has no certificate
C12_WitnessUnknownKey ==
    /\ UnloadReturned
    /\ wev.name \in DOMAIN wpre.files
    /\ wpre.files[wev.name] \notin DOMAIN wpre.keys
    /\ werr = "KeyNotFound"

\* the files of the directory that load() accepts: they parse and the
\* policy admits them
Loadable == {p \in Paths : \E c \in CertOfFile(dir[p]) : c.policy}

FileFingerprint(p) == (CHOOSE c \in CertOfFile(dir[p]) : TRUE).fp

\* the startup scan is complete and the directory is as it was scanned
ScanComplete == wpc # "scan" /\ changes = 0

\* C13: once the startup scan is complete the store holds the path
\* association of exactly the files that loaded, a certificate under exactly
\* their fingerprints holding all that these files bring, and nothing of a
\* file that failed to load; a failing file does not end the scan.
C13_ScanLoadsAllGoodFiles ==
    ScanComplete =>
        /\ DOMAIN files = Loadable
        /\ \A p \in Loadable : files[p] = FileFingerprint(p)
        /\ DOMAIN keys = {FileFingerprint(p) : p \in Loadable}
        /\ \A p \in Loadable :
              \A c \in CertOfFile(dir[p]) :
                 /\ c.userids \subseteq keys[c.fp].userids
                 /\ c.subkeys \subseteq keys[c.fp].subkeys
        /\ \A fp \in DOMAIN keys :
              \A u \in keys[fp].userids :
                 \E p \in Loadable :
                    \E c \in CertOfFile(dir[p]) : c.fp = fp /\ u \in c.userids

\* the scan met a file that does not parse, a file the policy rejects or
\* a certificate, and is complete
C13_Witness ==
    /\ ScanComplete
    /\ \E p \in Paths : dir[p] # NoFile /\ p \notin Loadable
    /\ Loadable # {}
    /\ DOMAIN files = Loadable

\* the identities of the map that stand for one address
SameAddress(c, d) == c.local_part = d.local_part /\ c.domain = d.domain

\* the map gives every valid identity of the certificate its fingerprint
MapsTo(us, key) ==
    \A e \in ValidEmails(key) :
       /\ EmailComponents(e[1], e[2]) \in DOMAIN us
       /\ us[EmailComponents(e[1], e[2])] = key.fp

\* C14: an address has at most one entry in the identity map, and once a
\* certificate is imported every valid identity of it maps to its
\* fingerprint, whichever certificate held the identity before; the lookup
\* returns the certificate the identity maps to.
C14_LastImportWins ==
    /\ \A c \in DOMAIN uids, d \in DOMAIN uids : SameAddress(c, d) => c = d
    /\ LoadDone => \A key \in wcert : MapsTo(uids, key)
    /\ (wpc = "scan" /\ last.op = "load" /\ last.ok)
          => \A key \in CertOfFile(dir[last.path]) : MapsTo(uids, key)
    /\ (rpc = "found" /\ ~wlock)
          => \A r \in rres :
                \E c \in DOMAIN uids :
                   /\ c.encoded_local = rq.encoded /\ c.domain = rq.domain
                   /\ r.fp = uids[c]

\* the certificate just loaded took an identity over from a certificate
\* of another fingerprint that is still stored
C14_Witness ==
    /\ LoadDone
    /\ \E key \in wcert :
          \E e \in ValidEmails(key) :
             /\ EmailComponents(e[1], e[2]) \in DOMAIN wpre.uids
             /\ wpre.uids[EmailComponents(e[1], e[2])] # key.fp
             /\ wpre.uids[EmailComponents(e[1], e[2])] \in DOMAIN keys
             /\ uids[EmailComponents(e[1], e[2])] = key.fp

\* C15: no certificate of the store, and no certificate an import is about
\* to insert, holds secret key material, merged or not.
C15_NoSecretMaterial ==
    /\ \A fp \in DOMAIN keys : ~keys[fp].secret
    /\ \A key \in wcert \cup wkey : ~key.secret

\* a file that holds secret key material was merged into a certificate
\* that was stored before it
C15_Witness ==
    \E content \in FileContents :
       \E c \in CertOfFile(content) :
          /\ c.secret
          /\ c.fp \in DOMAIN keys
          /\ c.subkeys \subseteq keys[c.fp].subkeys
          /\ keys[c.fp].subkeys # c.subkeys
          /\ ~keys[c.fp].secret

\* certificate a holds every user ID, user attribute and subkey, with its
\* signatures, of certificate b
Contains(a, b) ==
    /\ b.userids \subseteq a.userids
    /\ b.subkeys \subseteq a.subkeys
    /\ b.uattrs <= a.uattrs

\* the certificate stored under the fingerprint of c holds c and what
\* the store held under that fingerprint before
Merged(ks, before, c) ==
    /\ c.fp \in DOMAIN ks
    /\ Contains(ks[c.fp], c)
    /\ c.fp \in DOMAIN before => Contains(ks[c.fp], before[c.fp])

\* C18: an import under a fingerprint the store holds merges: the stored
\* certificate then holds every user ID, subkey and signature of the
\* certificate imported and of the certificate stored before, so that
\* nothing of any import since the last delete is lost.
C18_ImportMerges ==
    /\ LoadDone => \A c \in wcert : Merged(keys, wpre.keys, c)
    /\ (wpc = "scan" /\ last.op = "load" /\ last.ok)
          => \A c \in CertOfFile(dir[last.path]) :
                Merged(keys, last.before.keys, c)

\* the import met a stored certificate of its fingerprint, and each of
\* the two holds a component the other lacks
C18_Witness ==
    /\ LoadDone
    /\ \E c \in wcert :
          /\ c.fp \in DOMAIN wpre.keys
          /\ ~Contains(c, wpre.keys[c.fp])
          /\ ~Contains(wpre.keys[c.fp], c)
          /\ Contains(keys[c.fp], c)

\* C16: while the lock is poisoned a lookup yields no certificate, and the
\* request is answered Not found, whatever the store holds.
C16_PoisonedLookupIsNone ==
    (rpc = "found" /\ poisoned) => rres = {} /\ get_key_status(rres) = "404"

\* a lookup has returned none from a poisoned lock although an identity
\* entry of the store matches the request
C16_Witness ==
    rpc = "found" /\ poisoned /\ Matches(rq) # {} /\ rres = {}

\* every identity of the map points to a certificate of the store
IdentitiesResolve(s) ==
    \A c \in DOMAIN s.uids : s.uids[c] \in DOMAIN s.keys

\* C17: once the watcher task is aborted the write lock is not held, no
\* event is in hand, and the store is the one before or the one after a
\* whole load/unload, never one in between.
C17_AbortLeavesStoreWhole ==
    wpc = "aborted" =>
        /\ ~wlock
        /\ wev = NoEvent /\ wres = "none"
        /\ Observed(Store) \in {Observed(PreStore), Observed(PostStore)}
        /\ IdentitiesResolve(Store)

\* the task is aborted after it has handled an event, with a certificate
\* in the store
C17_Witness ==
    wpc = "aborted" /\ last.by = "watcher" /\ last.ok /\ keys # EmptyMap

\* C19: between operations, every identity of the map points to a
\* fingerprint that has a certificate in the store, so a lookup that
\* matches an identity finds its certificate.
C19_IdentitiesResolve ==
    /\ (~wlock /\ ~poisoned) => IdentitiesResolve(Store)
    /\ (rpc = "found" /\ ~wlock /\ ~poisoned)
          => (Matches(rq) # {} => rres # {})

\* an unload has deleted a certificate and its identities while another
\* certificate and its identities stay
C19_Witness ==
    /\ ~wlock /\ ~poisoned
    /\ last.op = "unload" /\ last.ok /\ last.by = "watcher"
    /\ uids # EmptyMap /\ keys # EmptyMap

\* C20: a load or unload that returns an error leaves the certificate map,
\* the identity map and the path map as they were before it.
C20_ErrorLeavesStoreUnchanged ==
    (wpc = "release" /\ wres = "err") => Store = wpre

====
